---- MODULE Spec2Model ----
(***************************************************************************)
(* Model of cssSelectorBuilder (src/src/05-objects-tasks.js, lines 116-199) *)
(*                                                                         *)
(* Every builder is a JavaScript object whose prototype is the root         *)
(* object cssSelectorBuilder.  An object is modelled by the record of its   *)
(* OWN properties; a property an object does not own is looked up on the    *)
(* root, and is undefined when the root does not own it either.  Strings    *)
(* are sequences of one-character strings, so that a template literal is a  *)
(* concatenation that can be compared character by character.               *)
(***************************************************************************)
EXTENDS Integers, Sequences, FiniteSets, TLC

VARIABLES heap, prov, last

vars == <<heap, prov, last>>

\* ------------------------------------------------------------------ bounds

\* builders that may be created besides the root (graph specification)
MaxBuilders == 3
\* calls of one chain (single-chain specification)
MaxChain == 6

\* ------------------------------------------------------------ inputs

\* the `value` arguments of the part-adding calls (single-chain specification)
Values == { <<"a">>, <<"b", "c">> }

\* the `value` arguments of the part-adding calls (graph specification)
GraphValues == { <<"a">> }

\* the `combinator` arguments of combine
Combinators == { <<"+">>, <<" ">> }

PartOps == {"element", "id", "class", "attr", "pseudoClass", "pseudoElement"}

\* ------------------------------------------------------------ the objects

\* index of the object cssSelectorBuilder in the heap
Root == 1

twiceTimeError == "Element, id and pseudo-element should not occur more then one time inside the selector"

orderError == "Selector parts should be arranged in the following order: element, id, class, attribute, pseudo-class, pseudo-element"

\* the own data properties of the object literal
cssSelectorBuilder ==
  [resultString |-> <<>>, elementOrder |-> 0, idOrder |-> 0, pseudoOrder |-> 0]

\* Object.create(cssSelectorBuilder): an object with no own property
ObjectCreate == [f \in {} |-> 0]

\* obj.f = v
Put(obj, f, v) == [g \in (DOMAIN obj) \cup {f} |-> IF g = f THEN v ELSE obj[g]]

\* f is found on obj or on its prototype, the root h[Root]
HasProp(h, obj, f) == f \in DOMAIN obj \/ f \in DOMAIN h[Root]

\* obj.f, for a property that HasProp finds
Get(h, obj, f) == IF f \in DOMAIN obj THEN obj[f] ELSE h[Root][f]

\* the outcome of a call that returned normally
ok == "ok"

Throw(h, message) == [heap |-> h, outcome |-> message, ret |-> 0]

Return(h, builder) == [heap |-> Append(h, builder), outcome |-> ok, ret |-> Len(h) + 1]

\* variant: the comparison is >= instead of >
checkQueueCorrectnessGe(h, this, num) ==
  HasProp(h, h[this], "order") /\ Get(h, h[this], "order") >= num

\* variant: the comparison is off by one rank
checkQueueCorrectnessLate(h, this, num) ==
  HasProp(h, h[this], "order") /\ Get(h, h[this], "order") > num + 1

\* this.order > num is false when this.order is undefined
checkQueueCorrectness(h, this, num) ==
  HasProp(h, h[this], "order") /\ Get(h, h[this], "order") > num

\* variant: this.order = 1 is executed before the duplicate check
ElementCallOrderFirst(h, this, value) ==
  IF checkQueueCorrectness(h, this, 1) THEN Throw(h, orderError)
  ELSE LET b1 == Put(ObjectCreate, "elementOrder", Get(h, h[this], "elementOrder") + 1)
           h1 == [h EXCEPT ![this] = Put(h[this], "order", 1)]
       IN IF b1.elementOrder > 1 THEN Throw(h1, twiceTimeError)
          ELSE Return(h1, Put(b1, "resultString",
                              Get(h1, b1, "resultString")
                                \o Get(h1, h1[this], "resultString") \o value))

ElementCall(h, this, value) ==
  IF checkQueueCorrectness(h, this, 1) THEN Throw(h, orderError)
  ELSE LET b1 == Put(ObjectCreate, "elementOrder", Get(h, h[this], "elementOrder") + 1)
       IN IF b1.elementOrder > 1 THEN Throw(h, twiceTimeError)
          ELSE LET h1 == [h EXCEPT ![this] = Put(h[this], "order", 1)]
                   b2 == Put(b1, "resultString",
                             Get(h1, b1, "resultString")
                               \o Get(h1, h1[this], "resultString") \o value)
               IN Return(h1, b2)

\* variant: the duplicate check of id is missing
IdCallNoCheck(h, this, value) ==
  IF checkQueueCorrectness(h, this, 2) THEN Throw(h, orderError)
  ELSE LET b1 == Put(ObjectCreate, "idOrder", Get(h, h[this], "idOrder") + 1)
           b2 == Put(b1, "order", 2)
       IN Return(h, Put(b2, "resultString",
                        Get(h, h[this], "resultString") \o <<"#">> \o value))

IdCall(h, this, value) ==
  IF checkQueueCorrectness(h, this, 2) THEN Throw(h, orderError)
  ELSE LET b1 == Put(ObjectCreate, "idOrder", Get(h, h[this], "idOrder") + 1)
           b2 == Put(b1, "order", 2)
       IN IF b2.idOrder > 1 THEN Throw(h, twiceTimeError)
          ELSE Return(h, Put(b2, "resultString",
                             Get(h, h[this], "resultString") \o <<"#">> \o value))

\* variant: class appends to the receiver's text in place as well
ClassCallInPlace(h, this, value) ==
  IF checkQueueCorrectness(h, this, 3) THEN Throw(h, orderError)
  ELSE LET t  == Get(h, h[this], "resultString") \o <<".">> \o value
           h1 == [h EXCEPT ![this] = Put(h[this], "resultString", t)]
       IN Return(h1, Put(Put(ObjectCreate, "order", 3), "resultString", t))

ClassCall(h, this, value) ==
  IF checkQueueCorrectness(h, this, 3) THEN Throw(h, orderError)
  ELSE LET b1 == Put(ObjectCreate, "order", 3)
       IN Return(h, Put(b1, "resultString",
                        Get(h, h[this], "resultString") \o <<".">> \o value))

AttrCall(h, this, value) ==
  IF checkQueueCorrectness(h, this, 4) THEN Throw(h, orderError)
  ELSE LET b1 == Put(ObjectCreate, "order", 4)
       IN Return(h, Put(b1, "resultString",
                        Get(h, h[this], "resultString") \o <<"[">> \o value \o <<"]">>))

PseudoClassCall(h, this, value) ==
  IF checkQueueCorrectness(h, this, 5) THEN Throw(h, orderError)
  ELSE LET b1 == Put(ObjectCreate, "order", 5)
       IN Return(h, Put(b1, "resultString",
                        Get(h, h[this], "resultString") \o <<":">> \o value))

\* variant: pseudoElement writes one colon
PseudoElementCallOneColon(h, this, value) ==
  IF checkQueueCorrectness(h, this, 6) THEN Throw(h, orderError)
  ELSE LET b1 == Put(ObjectCreate, "pseudoOrder", Get(h, h[this], "pseudoOrder") + 1)
           b2 == Put(b1, "order", 6)
       IN IF b2.pseudoOrder > 1 THEN Throw(h, twiceTimeError)
          ELSE Return(h, Put(b2, "resultString",
                             Get(h, h[this], "resultString") \o <<":">> \o value))

PseudoElementCall(h, this, value) ==
  IF checkQueueCorrectness(h, this, 6) THEN Throw(h, orderError)
  ELSE LET b1 == Put(ObjectCreate, "pseudoOrder", Get(h, h[this], "pseudoOrder") + 1)
           b2 == Put(b1, "order", 6)
       IN IF b2.pseudoOrder > 1 THEN Throw(h, twiceTimeError)
          ELSE Return(h, Put(b2, "resultString",
                             Get(h, h[this], "resultString") \o <<":", ":">> \o value))

StringifyCall(h, this) == Get(h, h[this], "resultString")

\* variant: the operands of combine are swapped
CombineCallSwapped(h, selector1, combinator, selector2) ==
  Return(h, Put(ObjectCreate, "resultString",
                Get(h, h[selector2], "resultString") \o <<" ">> \o combinator
                  \o <<" ">> \o Get(h, h[selector1], "resultString")))

\* variant: the new builder is created from the right operand, and so
\* inherits its recorded rank and counters
CombineCallFromRight(h, selector1, combinator, selector2) ==
  Return(h, Put(h[selector2], "resultString",
                Get(h, h[selector1], "resultString") \o <<" ">> \o combinator
                  \o <<" ">> \o Get(h, h[selector2], "resultString")))

CombineCall(h, selector1, combinator, selector2) ==
  Return(h, Put(ObjectCreate, "resultString",
                Get(h, h[selector1], "resultString") \o <<" ">> \o combinator
                  \o <<" ">> \o Get(h, h[selector2], "resultString")))

\* dispatch of a part-adding method by its name
Call(h, this, op, value) ==
  CASE op = "element"       -> ElementCall(h, this, value)
    [] op = "id"            -> IdCall(h, this, value)
    [] op = "class"         -> ClassCall(h, this, value)
    [] op = "attr"          -> AttrCall(h, this, value)
    [] op = "pseudoClass"   -> PseudoClassCall(h, this, value)
    [] op = "pseudoElement" -> PseudoElementCall(h, this, value)

\* ------------------------------------------------------------ the state

\* heap : the objects, heap[Root] the root; prov[i] : the call that returned
\* heap[i]; last : the call made by the latest step and how it ended.

NoCall == [op |-> "none", this |-> 0, arg |-> <<>>, sel1 |-> 0, sel2 |-> 0,
           outcome |-> ok, ret |-> 0, str |-> <<>>]

Init ==
  /\ heap = <<cssSelectorBuilder>>
  /\ prov = <<NoCall>>
  /\ last = NoCall

\* one step: the call of a part-adding method on the object `this`
Step(op, this, value) ==
  LET r == Call(heap, this, op, value)
      c == [NoCall EXCEPT !.op = op, !.this = this, !.arg = value,
                          !.outcome = r.outcome, !.ret = r.ret]
  IN /\ heap' = r.heap
     /\ last' = c
     /\ prov' = IF r.outcome = ok THEN Append(prov, c) ELSE prov

Element(this, value) == Step("element", this, value)

Id(this, value) == Step("id", this, value)

Class(this, value) == Step("class", this, value)

Attr(this, value) == Step("attr", this, value)

PseudoClass(this, value) == Step("pseudoClass", this, value)

PseudoElement(this, value) == Step("pseudoElement", this, value)

Stringify(this) ==
  /\ last' = [NoCall EXCEPT !.op = "stringify", !.this = this,
                            !.str = StringifyCall(heap, this)]
  /\ UNCHANGED <<heap, prov>>

Combine(selector1, combinator, selector2) ==
  LET r == CombineCall(heap, selector1, combinator, selector2)
      c == [NoCall EXCEPT !.op = "combine", !.this = Root, !.arg = combinator,
                          !.sel1 = selector1, !.sel2 = selector2,
                          !.outcome = r.outcome, !.ret = r.ret]
  IN /\ heap' = r.heap
     /\ last' = c
     /\ prov' = Append(prov, c)

\* a builder can still be created within the bound of the specification
Room(max) == Len(heap) <= max

\* graph specification: any call on any existing builder
Next ==
  \/ \E this \in DOMAIN heap, value \in GraphValues :
       Room(MaxBuilders) /\ Element(this, value)
  \/ \E this \in DOMAIN heap, value \in GraphValues :
       Room(MaxBuilders) /\ Id(this, value)
  \/ \E this \in DOMAIN heap, value \in GraphValues :
       Room(MaxBuilders) /\ Class(this, value)
  \/ \E this \in DOMAIN heap, value \in GraphValues :
       Room(MaxBuilders) /\ Attr(this, value)
  \/ \E this \in DOMAIN heap, value \in GraphValues :
       Room(MaxBuilders) /\ PseudoClass(this, value)
  \/ \E this \in DOMAIN heap, value \in GraphValues :
       Room(MaxBuilders) /\ PseudoElement(this, value)
  \/ \E this \in DOMAIN heap :
       Room(MaxBuilders) /\ Stringify(this)
  \/ \E s1 \in DOMAIN heap, s2 \in DOMAIN heap, c \in Combinators :
       Room(MaxBuilders) /\ Combine(s1, c, s2)

Spec == Init /\ [][Next]_vars

\* single-chain specification: every call is made on the builder returned by
\* the latest successful call (the root at first)
NextChain ==
  \/ \E value \in Values : Room(MaxChain) /\ Element(Len(heap), value)
  \/ \E value \in Values : Room(MaxChain) /\ Id(Len(heap), value)
  \/ \E value \in Values : Room(MaxChain) /\ Class(Len(heap), value)
  \/ \E value \in Values : Room(MaxChain) /\ Attr(Len(heap), value)
  \/ \E value \in Values : Room(MaxChain) /\ PseudoClass(Len(heap), value)
  \/ \E value \in Values : Room(MaxChain) /\ PseudoElement(Len(heap), value)
  \/ Room(MaxChain) /\ Stringify(Len(heap))

SpecChain == Init /\ [][NextChain]_vars

\* ------------------------------------------------------------ vocabulary of the claims

Errors == {orderError, twiceTimeError}

Singletons == {"element", "id", "pseudoElement"}

Repeatables == {"class", "attr", "pseudoClass"}

\* the accumulated text of builder b
Text(b) == Get(heap, heap[b], "resultString")

\* canonical rank of a part kind
Rank(op) ==
  CASE op = "element"       -> 1
    [] op = "id"            -> 2
    [] op = "class"         -> 3
    [] op = "attr"          -> 4
    [] op = "pseudoClass"   -> 5
    [] op = "pseudoElement" -> 6

\* the fragment a part contributes to the text
Fragment(op, value) ==
  CASE op = "element"       -> value
    [] op = "id"            -> <<"#">> \o value
    [] op = "class"         -> <<".">> \o value
    [] op = "attr"          -> <<"[">> \o value \o <<"]">>
    [] op = "pseudoClass"   -> <<":">> \o value
    [] op = "pseudoElement" -> <<":", ":">> \o value

\* b was built from the root by part-adding calls only
RECURSIVE IsSimple(_)
IsSimple(b) ==
  \/ b = Root
  \/ /\ prov[b].op \in PartOps
     /\ IsSimple(prov[b].this)

\* the calls that built b, first call first (for IsSimple(b))
RECURSIVE ChainOf(_)
ChainOf(b) == IF b = Root THEN <<>> ELSE Append(ChainOf(prov[b].this), prov[b])

\* the calls are in canonical rank order, singletons at most once
Canonical(calls) ==
  /\ \A i, j \in DOMAIN calls : i < j => Rank(calls[i].op) <= Rank(calls[j].op)
  /\ \A i, j \in DOMAIN calls :
       (i /= j /\ calls[i].op = calls[j].op) => calls[i].op \in Repeatables

\* the fragments of the calls, concatenated in call order
RECURSIVE Concat(_)
Concat(calls) ==
  IF calls = <<>> THEN <<>>
  ELSE Concat(SubSeq(calls, 1, Len(calls) - 1))
         \o Fragment(calls[Len(calls)].op, calls[Len(calls)].arg)

\* the latest step was a part-adding call
PartCall == last.op \in PartOps

\* the chain of the receiver contains a part of kind op
Contains(b, op) == \E i \in DOMAIN ChainOf(b) : ChainOf(b)[i].op = op

\* C1: a chain from the root whose calls are in canonical rank order raises
\* no error, and its text is the concatenation of its fragments in call order
CanonicalChainText ==
  /\ (PartCall /\ IsSimple(last.this) /\ Canonical(Append(ChainOf(last.this), last)))
       => last.outcome = ok
  /\ \A b \in DOMAIN heap :
       (IsSimple(b) /\ Canonical(ChainOf(b))) => Text(b) = Concat(ChainOf(b))

\* C1 witness: the full chain element, id, class, attr, pseudoClass,
\* pseudoElement has just been built
CanonicalChainBuilt ==
  /\ PartCall /\ last.outcome = ok /\ last.op = "pseudoElement"
  /\ Len(ChainOf(last.ret)) = 6
  /\ \A op \in PartOps : Contains(last.ret, op)
  /\ Canonical(ChainOf(last.ret))

\* C2: a part of lower rank than the last part appended raises the order error
LowerRankRaisesOrderError ==
  (PartCall /\ last.this /= Root /\ prov[last.this].op \in PartOps
     /\ Rank(last.op) < Rank(prov[last.this].op))
    => last.outcome = orderError

\* C2 witness: id called right after class, deep in a chain, raised the order error
OrderErrorRaised ==
  /\ PartCall /\ last.this > 3 /\ last.op = "id"
  /\ prov[last.this].op = "class"
  /\ last.outcome = orderError

\* C3 as stated: a singleton kind already in the chain raises the duplicate error
DuplicateAlwaysTwiceError ==
  (PartCall /\ last.op \in Singletons /\ IsSimple(last.this)
     /\ Contains(last.this, last.op))
    => last.outcome = twiceTimeError

\* C3 amended: a singleton kind already in the chain raises the duplicate error
\* when that part is the last one appended, and the order error when parts of
\* higher rank were appended after it
DuplicateTwiceOrOrderError ==
  (PartCall /\ last.op \in Singletons /\ IsSimple(last.this)
     /\ Contains(last.this, last.op))
    => IF prov[last.this].op = last.op
       THEN last.outcome = twiceTimeError
       ELSE last.outcome = orderError

\* C3 witness: id called on the builder returned by id, after an element
DuplicateRaised ==
  /\ PartCall /\ last.op = "id" /\ last.this = 3
  /\ prov[3].op = "id" /\ prov[2].op = "element"
  /\ last.outcome = twiceTimeError

\* C4: class, attr and pseudoClass on a builder whose last rank is not higher
\* raise no error and append exactly their own fragment
RepeatableAppends ==
  (PartCall /\ last.op \in Repeatables
     /\ (last.this = Root \/ Rank(prov[last.this].op) <= Rank(last.op)))
    => /\ last.outcome = ok
       /\ Text(last.ret) = Text(last.this) \o Fragment(last.op, last.arg)

\* C4 witness: the third class call in a row, with different values
RepeatedThrice ==
  /\ PartCall /\ last.op = "class" /\ last.outcome = ok /\ last.this > 2
  /\ prov[last.this].op = "class"
  /\ prov[prov[last.this].this].op = "class"
  /\ prov[last.this].arg /= last.arg

\* C5: combine never raises and returns the text of its left operand, a
\* space, the token, a space and the text of its right operand
CombineConcatenates ==
  last.op = "combine"
    => /\ last.outcome = ok
       /\ Text(last.ret) = Text(last.sel1) \o <<" ">> \o last.arg \o <<" ">> \o Text(last.sel2)

\* C5 witness: a combination was combined with a simple chain of another text
CombinedCombination ==
  /\ last.op = "combine" /\ last.outcome = ok
  /\ prov[last.sel1].op = "combine"
  /\ prov[last.sel2].op \in PartOps
  /\ Text(last.sel1) /= Text(last.sel2)

\* C6: a call that raises an error leaves every object as it was
FailedCallChangesNothing ==
  [][(last'.outcome \in Errors) => (heap' = heap /\ prov' = prov)]_vars

\* C6 witness: element raised the duplicate error on a builder made by element
ElementFailed ==
  /\ last.op = "element" /\ last.outcome = twiceTimeError
  /\ last.this /= Root /\ prov[last.this].op = "element"

\* C7: no call writes a property of an object that already exists
NoWriteToExisting ==
  [][\A b \in DOMAIN heap : heap'[b] = heap[b]]_vars

\* the calls alone, in order, on a fresh root: how the first failing call
\* ended and where, or the text of the last builder
RECURSIVE Run(_, _, _, _)
Run(h, cur, calls, i) ==
  IF i > Len(calls)
  THEN [outcome |-> ok, at |-> 0, str |-> Get(h, h[cur], "resultString")]
  ELSE LET r == Call(h, cur, calls[i].op, calls[i].arg)
       IN IF r.outcome /= ok
          THEN [outcome |-> r.outcome, at |-> i, str |-> <<>>]
          ELSE Run(r.heap, r.ret, calls, i + 1)

RunAlone(calls) == Run(<<cssSelectorBuilder>>, Root, calls, 1)

\* C8: a call of a chain from the root ends as it does when the chain runs
\* alone on a fresh root, whatever was built from the root before
OutcomeAsAlone ==
  (PartCall /\ IsSimple(last.this))
    => LET calls == Append(ChainOf(last.this), last)
           alone == RunAlone(calls)
       IN /\ alone.outcome = last.outcome
          /\ last.outcome /= ok => alone.at = Len(calls)
          /\ last.outcome = ok => alone.str = Text(last.ret)

\* C8 witness: two chains were started at the root, and the first one was
\* continued after the second one
ChainsInterleaved ==
  /\ Len(heap) >= 3
  /\ prov[2].op = "element" /\ prov[2].this = Root
  /\ prov[3].op \in PartOps /\ prov[3].this = Root
  /\ PartCall /\ last.this = 2

\* C10: the text of an existing builder never changes, a new builder carries
\* the receiver's text followed by its own fragment, and stringify returns the
\* text and changes nothing
TextsPersist ==
  [][/\ \A b \in DOMAIN heap :
          Get(heap', heap'[b], "resultString") = Get(heap, heap[b], "resultString")
     /\ (last'.op \in PartOps /\ last'.outcome = ok)
          => Get(heap', heap'[last'.ret], "resultString")
               = Text(last'.this) \o Fragment(last'.op, last'.arg)
     /\ last'.op = "stringify"
          => (heap' = heap /\ last'.str = Text(last'.this))]_vars

\* C10 witness: the second of two different continuations of the same
\* builder, itself not the root, has just been built
BranchedTwice ==
  /\ PartCall /\ last.outcome = ok /\ last.ret = 4 /\ last.this = 2
  /\ prov[3].this = 2 /\ prov[3].op \in PartOps /\ prov[3].op /= last.op
  /\ prov[2].op \in PartOps

\* the runs of a text between spaces
RECURSIVE Segments(_)
Segments(text) ==
  IF \A i \in DOMAIN text : text[i] /= " " THEN <<text>>
  ELSE LET k == CHOOSE i \in DOMAIN text :
                  text[i] = " " /\ \A j \in 1..(i - 1) : text[j] /= " "
       IN <<SubSeq(text, 1, k - 1)>> \o Segments(SubSeq(text, k + 1, Len(text)))

CombinatorTokens == { <<"+">>, <<"~">>, <<">">> }

\* the ranks of the fragments of a simple selector, read from its characters
\* from position i on: '#', '.', '[', ':' and '::' open a fragment, and a
\* name character opens an element fragment at the start or after ']'
RECURSIVE FragmentRanks(_, _)
FragmentRanks(seg, i) ==
  IF i > Len(seg) THEN <<>>
  ELSE CASE seg[i] = "#" -> <<2>> \o FragmentRanks(seg, i + 1)
         [] seg[i] = "." -> <<3>> \o FragmentRanks(seg, i + 1)
         [] seg[i] = "[" -> <<4>> \o FragmentRanks(seg, i + 1)
         [] seg[i] = ":" ->
              IF i < Len(seg) /\ seg[i + 1] = ":"
              THEN <<6>> \o FragmentRanks(seg, i + 2)
              ELSE <<5>> \o FragmentRanks(seg, i + 1)
         [] seg[i] = "]" -> FragmentRanks(seg, i + 1)
         [] OTHER ->
              IF i = 1 \/ seg[i - 1] = "]"
              THEN <<1>> \o FragmentRanks(seg, i + 1)
              ELSE FragmentRanks(seg, i + 1)

\* fragments in non-decreasing rank order, element, id and pseudo-element
\* at most once
SimpleWellFormed(seg) ==
  LET r == FragmentRanks(seg, 1)
  IN /\ \A i, j \in DOMAIN r : i < j => r[i] <= r[j]
     /\ \A i, j \in DOMAIN r : (i /= j /\ r[i] = r[j]) => r[i] \in {3, 4, 5}

WellFormed(text) ==
  \A k \in DOMAIN Segments(text) :
    Segments(text)[k] \notin CombinatorTokens => SimpleWellFormed(Segments(text)[k])

\* C9: the text of every builder is well formed, simple selector by simple
\* selector
EveryTextWellFormed == \A b \in DOMAIN heap : WellFormed(Text(b))

\* the same for the builders built from the root by part-adding calls only
SimpleChainsWellFormed == \A b \in DOMAIN heap : IsSimple(b) => WellFormed(Text(b))

\* ------------------------------------------------------------ the chain state

\* b owns a recorded rank, and it is r
OwnRank(b, r) == "order" \in DOMAIN heap[b] /\ heap[b].order = r

\* C11: the builder returned by a part-adding call owns a recorded rank equal
\* to the rank of the part just appended
RankRecordedOnReturned ==
  \A b \in DOMAIN heap : prov[b].op \in PartOps => OwnRank(b, Rank(prov[b].op))

\* the same for the five operations other than element
RankRecordedExceptElement ==
  \A b \in DOMAIN heap :
    prov[b].op \in PartOps \ {"element"} => OwnRank(b, Rank(prov[b].op))

\* the singleton counter that a part kind increments
Counter(op) ==
  CASE op = "element"       -> "elementOrder"
    [] op = "id"            -> "idOrder"
    [] op = "pseudoElement" -> "pseudoOrder"

\* C12: on a builder built from the root by part-adding calls, the counter of
\* a singleton kind is non-zero exactly when the chain contains that kind
CountersTrackChain ==
  \A b \in DOMAIN heap :
    IsSimple(b) =>
      \A op \in Singletons :
        (Get(heap, heap[b], Counter(op)) /= 0) <=> Contains(b, op)

\* the same for the kind of the part appended last only
CounterOfLastPartSet ==
  \A b \in DOMAIN heap :
    (IsSimple(b) /\ b /= Root /\ prov[b].op \in Singletons)
      => Get(heap, heap[b], Counter(prov[b].op)) = 1

\* b was returned by combine
Combined(b) == prov[b].op = "combine"

\* C13: the builder that combine returns owns no recorded rank and reads 0
\* for its three counters, and every part-adding call made on a builder
\* returned by combine succeeds and appends its fragment to that builder's text
CombineStartsFresh ==
  /\ last.op = "combine"
       => /\ "order" \notin DOMAIN heap[last.ret]
          /\ \A op \in Singletons : Get(heap, heap[last.ret], Counter(op)) = 0
  /\ (PartCall /\ Combined(last.this))
       => /\ last.outcome = ok
          /\ Text(last.ret) = Text(last.this) \o Fragment(last.op, last.arg)
          /\ Text(last.ret) =
               Text(prov[last.this].sel1) \o <<" ">> \o prov[last.this].arg \o <<" ">>
                 \o Text(prov[last.this].sel2) \o Fragment(last.op, last.arg)

\* C13 witness: element succeeded on a combination whose right operand ends
\* in a pseudo-element
ElementAfterCombinedPseudoElement ==
  /\ PartCall /\ last.op = "element" /\ last.outcome = ok
  /\ Combined(last.this)
  /\ prov[prov[last.this].sel2].op = "pseudoElement"

\* C14: the root keeps its empty text and its counters at 0, and every
\* counter of every builder is 0 or 1
RootIntactCountersBounded ==
  /\ heap[Root].resultString = <<>>
  /\ \A op \in Singletons : heap[Root][Counter(op)] = 0
  /\ \A b \in DOMAIN heap :
       \A op \in Singletons : Get(heap, heap[b], Counter(op)) \in {0, 1}

\* C14 witness: a duplicate id was refused on a builder made from the root,
\* after the root had been written by element
DuplicateRefusedRootWritten ==
  /\ last.op = "id" /\ last.outcome = twiceTimeError
  /\ prov[last.this].this = Root
  /\ "order" \in DOMAIN heap[Root]

====
